---------------------------- MODULE Spec2Model ----------------------------
(***************************************************************************)
(* A model of the radiography simulation scripts:                          *)
(*   Approach 2/raycasting.py        continuous ray-march integrator       *)
(*   Approach 3/voxelgrid.py         voxel grid builder                    *)
(*   Approach 3/simulate_marrow.py   interior eroder (marrow)              *)
(*   Approach 3/render_voxelgrid.py  discrete grid integrator              *)
(*                                                                         *)
(* An ndarray is a record [shape |-> <<n0, n1, n2>>, data |-> f] where f   *)
(* maps every index <<x, y, z>> (0-based, as in numpy) to the cell's value.*)
(* A file of the working directory is the set of its contents: empty      *)
(* while the file does not exist, else one element, what was last saved.   *)
(***************************************************************************)
EXTENDS Integers, Sequences, FiniteSets, TLC

VARIABLES
    \* ---- files of the blend directory ("//")
    file_grid,        \* voxel_grid.npy
    file_marrow,      \* voxel_grid_marrow.npy
    file_meta,        \* voxel_metadata.txt
    file_png,         \* approach_3_final_result.png
    log,              \* the scripts run so far, in the order they were started
    \* ---- voxelgrid.py
    b_pc,             \* position in the script
    b_voxel_grid,     \* voxel_grid (lines 127-133, 189)
    b_step,           \* step (line 126)
    MAX_EMPTY,        \* user adjustable parameter (line 22)
    b_min_dist,       \* min_dist (lines 98-120)
    b_k,              \* slices of the ray done by the loop of line 172
    found_geometry,   \* line 168
    exited_geometry,  \* line 169
    empty_count,      \* line 170
    pt_sample,        \* the sample points of the slice last sampled (line 179)
    tags,             \* their tags (lines 175, 180)
    \* ---- render_voxelgrid.py
    v_pc,             \* position in the script
    v_meta,           \* width, height, step, depth_slices (lines 31-33)
    v_grid,           \* voxel_grid (line 36)
    projection,       \* line 39
    v_next,           \* pixels done by the loops of lines 40-41
    \* ---- simulate_marrow.py
    SHELL_THICKNESS,  \* user adjustable parameter (line 16)
    m_pc,             \* position in the script
    voxel_grid,       \* the loaded grid (line 45)
    skeleton_mask,    \* line 48
    eroded,           \* erode_mask's local (lines 26, 38)
    new_mask,         \* erode_mask's local (lines 28-37)
    it,               \* iterations of the loop of line 27 completed
    interior_mask,    \* line 52
    output_grid,      \* lines 55-57
    \* ---- raycasting.py, one pixel's ray
    scene,            \* the solids the ray meets (the Geometry Oracle)
    DENSITY_VALUES,   \* user adjustable parameter (lines 18-22)
    clip_start,       \* cam_data.clip_start
    clip_end,         \* cam_data.clip_end
    r_pc,             \* "loop" while in the while loop of line 89
    inside_stack,     \* line 85
    total_density,    \* line 86
    current_dist,     \* line 87
    responses,        \* what scene.ray_cast returned so far (line 91)
    r_projection,     \* the value line 111 computes for the pixel
    r_next,           \* pixels done by the loops of lines 72-74
    r_buffer,         \* projection (lines 69, 111) in a sweep of several pixels
    \* ---- voxelgrid.py, one call of point_in_mesh_local, along local +X
    p_pc,             \* "loop" while in the while loop of line 39
    p_origin,         \* origin - point_local (lines 38, 46)
    p_max_dist,       \* max_dist (lines 36, 47)
    p_hits,           \* hits (lines 37, 44)
    p_inside          \* the value returned (line 50)

marrowVars == <<SHELL_THICKNESS, m_pc, voxel_grid, skeleton_mask, eroded,
                new_mask, it, interior_mask, output_grid>>
fileVars == <<file_grid, file_marrow, file_meta, file_png, log>>
buildVars == <<b_pc, b_voxel_grid, b_step, MAX_EMPTY, b_min_dist, b_k,
               found_geometry, exited_geometry, empty_count, pt_sample, tags>>
renderVars == <<v_pc, v_meta, v_grid, projection, v_next>>
rayVars == <<scene, DENSITY_VALUES, clip_start, clip_end, r_pc, inside_stack,
             total_density, current_dist, responses, r_projection, r_next,
             r_buffer>>
pimVars == <<p_pc, p_origin, p_max_dist, p_hits, p_inside>>
vars == <<fileVars, buildVars, marrowVars, renderVars, rayVars, pimVars>>

NoFile == {}
Unset == "unset"

\* point_in_mesh_local is not being run
PimIdle ==
    /\ p_pc = "idle"
    /\ p_origin = 0
    /\ p_max_dist = 0
    /\ p_hits = 0
    /\ p_inside = FALSE

----------------------------------------------------------------------------
(* Bounds of the exploration *)

\* largest extent of an axis of the grids explored
MaxDim == 3
\* largest SHELL_THICKNESS (iteration count of erode_mask) explored
MaxShell == 2

----------------------------------------------------------------------------
(* numpy arrays *)

Cells(shape) == (0..(shape[1]-1)) \X (0..(shape[2]-1)) \X (0..(shape[3]-1))

\* a == value, elementwise
EqualsTag(a, tag) ==
    [shape |-> a.shape, data |-> [c \in Cells(a.shape) |-> a.data[c] = tag]]

\* a copy of grid with grid[mask] = tag
AssignWhere(grid, mask, tag) ==
    [shape |-> grid.shape,
     data  |-> [c \in Cells(grid.shape) |->
                  IF mask.data[c] THEN tag ELSE grid.data[c]]]

TrueSet(mask) == {c \in Cells(mask.shape) : mask.data[c]}

\* the cells of the slice [1:-1, 1:-1, 1:-1]
Inner(shape) ==
    {c \in Cells(shape) : \A a \in 1..3 : c[a] >= 1 /\ c[a] <= shape[a] - 2}

\* the index one step along axis a (d = -1 or +1)
Shift(c, a, d) == [c EXCEPT ![a] = c[a] + d]

\* the tags the voxel grid builder writes
BuilderTags == {"none", "body", "muscle", "skeleton"}

\* The grids explored: an axis-aligned block lo..hi of one tag inside a grid
\* of another tag.
BoxGrid(shape, lo, hi, inTag, outTag) ==
    [shape |-> shape,
     data  |-> [c \in Cells(shape) |->
                  IF \A a \in 1..3 : lo[a] <= c[a] /\ c[a] <= hi[a]
                  THEN inTag ELSE outTag]]

Shapes == (1..MaxDim) \X (1..MaxDim) \X (1..MaxDim)

Blocks(shape) ==
    {b \in Cells(shape) \X Cells(shape) : \A a \in 1..3 : b[1][a] <= b[2][a]}

----------------------------------------------------------------------------
(* simulate_marrow.py *)

\* numpy's reading of a slice bound i on an axis of n cells: a negative
\* bound counts from the end, and the bound is clipped to 0..n
SliceBound(n, i) ==
    IF i < 0 THEN (IF i + n < 0 THEN 0 ELSE i + n)
    ELSE (IF i > n THEN n ELSE i)

\* lines 30-37: the cell of the operand slice that starts at `start` on axis
\* a (0 for [0:-2], 2 for [2:]) lined up with cell c of the target [1:-1]
OperandCell(shape, c, a, start) ==
    [c EXCEPT ![a] = SliceBound(shape[a], start) + (c[a] - SliceBound(shape[a], 1))]

\* lines 30-37: the cells of eroded read for cell c of new_mask[1:-1, 1:-1, 1:-1]
OperandCells(shape, c) ==
    {OperandCell(shape, c, a, start) : a \in 1..3, start \in {0, 2}}

\* an erosion that takes the neighbours of every cell modulo the extent of
\* the axis (np.roll), not the code's
ErodeStepWrap(m) ==
    [shape |-> m.shape,
     data  |-> [c \in Cells(m.shape) |->
                  \A a \in 1..3, d \in {-1, 1} :
                      m.data[[c EXCEPT ![a] = (c[a] + d) % m.shape[a]]]]]

\* The assignment of lines 28-37: the new mask of one iteration.  The slices
\* [0:-2] and [2:] line the -1 and +1 neighbours up with the cells of [1:-1].
ErodeStepMissingZ(m) ==
    [shape |-> m.shape,
     data  |-> [c \in Cells(m.shape) |->
                  IF c \in Inner(m.shape)
                  THEN /\ m.data[Shift(c, 1, -1)]
                       /\ m.data[Shift(c, 1,  1)]
                       /\ m.data[Shift(c, 2, -1)]
                       /\ m.data[Shift(c, 2,  1)]
                       /\ m.data[Shift(c, 3,  1)]
                  ELSE FALSE]]

ErodeStep(m) ==
    [shape |-> m.shape,
     data  |-> [c \in Cells(m.shape) |->
                  IF c \in Inner(m.shape)
                  THEN /\ m.data[Shift(c, 1, -1)]
                       /\ m.data[Shift(c, 1,  1)]
                       /\ m.data[Shift(c, 2, -1)]
                       /\ m.data[Shift(c, 2,  1)]
                       /\ m.data[Shift(c, 3, -1)]
                       /\ m.data[Shift(c, 3,  1)]
                  ELSE FALSE]]

\* what simulate_marrow.py never touches
MarrowFrame == UNCHANGED <<buildVars, renderVars, rayVars, pimVars>>

\* a script is started only while no other script is running
Quiet(pc) == pc \in {"idle", "start", "done", "aborted", "no_file"}

\* line 44-45: np.load of voxel_grid.npy, which raises if there is no file
MarrowLoad ==
    /\ m_pc = "start"
    /\ Quiet(b_pc) /\ Quiet(v_pc)
    /\ log' = Append(log, "simulate_marrow")
    /\ IF file_grid = NoFile
       THEN m_pc' = "no_file" /\ UNCHANGED voxel_grid
       ELSE m_pc' = "loaded" /\ voxel_grid' \in file_grid
    /\ UNCHANGED <<file_grid, file_marrow, file_meta, file_png, SHELL_THICKNESS,
                   skeleton_mask, eroded, new_mask, it, interior_mask,
                   output_grid>>
    /\ MarrowFrame

\* line 48, and the call of line 52 up to line 26 (eroded = mask.copy())
MarrowMask ==
    /\ m_pc = "loaded"
    /\ skeleton_mask' = EqualsTag(voxel_grid, "skeleton")
    /\ eroded' = EqualsTag(voxel_grid, "skeleton")
    /\ it' = 0
    /\ m_pc' = "loop"
    /\ UNCHANGED <<fileVars, SHELL_THICKNESS, voxel_grid, new_mask,
                   interior_mask, output_grid>>
    /\ MarrowFrame

\* lines 27-37: one more iteration computes new_mask from eroded
ErodeCompute ==
    /\ m_pc = "loop"
    /\ it < SHELL_THICKNESS
    /\ new_mask' = ErodeStep(eroded)
    /\ m_pc' = "assign"
    /\ UNCHANGED <<fileVars, SHELL_THICKNESS, voxel_grid, skeleton_mask,
                   eroded, it, interior_mask, output_grid>>
    /\ MarrowFrame

\* line 38: eroded = new_mask
ErodeAssign ==
    /\ m_pc = "assign"
    /\ eroded' = new_mask
    /\ it' = it + 1
    /\ m_pc' = "loop"
    /\ UNCHANGED <<fileVars, SHELL_THICKNESS, voxel_grid, skeleton_mask,
                   new_mask, interior_mask, output_grid>>
    /\ MarrowFrame

\* line 39 (return eroded), line 52 and lines 55-57
MarrowReclassify ==
    /\ m_pc = "loop"
    /\ it >= SHELL_THICKNESS
    /\ interior_mask' = eroded
    /\ output_grid' = AssignWhere(voxel_grid, eroded, "marrow")
    /\ m_pc' = "reclassified"
    /\ UNCHANGED <<fileVars, SHELL_THICKNESS, voxel_grid, skeleton_mask,
                   eroded, new_mask, it>>
    /\ MarrowFrame

\* lines 59-60: np.save to voxel_grid_marrow.npy
MarrowSave ==
    /\ m_pc = "reclassified"
    /\ file_marrow' = {output_grid}
    /\ m_pc' = "done"
    /\ UNCHANGED <<file_grid, file_meta, file_png, log, SHELL_THICKNESS,
                   voxel_grid, skeleton_mask, eroded, new_mask, it,
                   interior_mask, output_grid>>
    /\ MarrowFrame

MarrowNext ==
    \/ MarrowLoad
    \/ MarrowMask
    \/ ErodeCompute
    \/ ErodeAssign
    \/ MarrowReclassify
    \/ MarrowSave

MarrowStart ==
    /\ m_pc = "start"
    /\ voxel_grid = Unset
    /\ skeleton_mask = Unset
    /\ eroded = Unset
    /\ new_mask = Unset
    /\ it = 0
    /\ interior_mask = Unset
    /\ output_grid = Unset

----------------------------------------------------------------------------
(* voxelgrid.py *)
(* Distances are integers in units of 1e-5, as in the ray march.  The step *)
(* depth_range / DEPTH_SLICES is kept in units of 1e-5 / DEPTH_SLICES, in  *)
(* which it is the integer depth_range; the sub-sample fraction            *)
(* random.random() is one of 0/FracDen .. (FracDen-1)/FracDen.             *)

\* what voxelgrid.py never assigns
BuildFrame == UNCHANGED <<marrowVars, renderVars, rayVars, pimVars>>

\* lines 55-201, whatever the scene: the grid is filled with the tags the
\* scene samples to, here a block of skeleton in a grid of another tag
BuilderFillAny ==
    /\ b_pc = "start"
    /\ Quiet(m_pc) /\ Quiet(v_pc)
    /\ log' = Append(log, "voxelgrid")
    /\ \E shape \in Shapes : \E b \in Blocks(shape) : \E outTag \in BuilderTags :
            b_voxel_grid' = BoxGrid(shape, b[1], b[2], "skeleton", outTag)
    /\ b_pc' = "filled"
    /\ UNCHANGED <<file_grid, file_marrow, file_meta, file_png, b_step,
                   MAX_EMPTY, b_min_dist, b_k, found_geometry, exited_geometry,
                   empty_count, pt_sample, tags>>
    /\ BuildFrame

\* lines 206-214: np.save of the grid and the three lines of metadata; the
\* grid is voxel_grid[height][width][DEPTH_SLICES] (lines 127-133)
BuilderSave ==
    /\ b_pc = "filled"
    /\ file_grid' = {b_voxel_grid}
    /\ file_meta' = {[width |-> b_voxel_grid.shape[2],
                      height |-> b_voxel_grid.shape[1],
                      step |-> b_step,
                      depth_slices |-> b_voxel_grid.shape[3]]}
    /\ b_pc' = "done"
    /\ UNCHANGED <<file_marrow, file_png, log, b_voxel_grid, b_step,
                   MAX_EMPTY, b_min_dist, b_k, found_geometry, exited_geometry,
                   empty_count, pt_sample, tags>>
    /\ BuildFrame

----------------------------------------------------------------------------
(* render_voxelgrid.py *)
(* A pixel of the projection is the record [one_minus_exp_neg |-> d] for   *)
(* the intensity 1.0 - math.exp(-d), d the optical depth in units of 1e-7. *)

\* lines 16-22, in units of 0.01
DENSITY_MAPPING ==
    [skeleton |-> 50, muscle |-> 5, body |-> 2, marrow |-> 10, none |-> 0]

MappedTags == {"skeleton", "muscle", "body", "marrow", "none"}

IntensityOf(d) == [one_minus_exp_neg |-> d]

\* line 55: max(0.0, min(val, 1.0)); 1 - exp(-d) is below 0 iff d < 0 and
\* never above 1
Gray(val) == IF val.one_minus_exp_neg < 0 THEN IntensityOf(0) ELSE val

Pixels(width, height) == (0..(height - 1)) \X (0..(width - 1))

\* the pixel the loops of lines 40-41 reach after n pixels
PixelAt(n, width) == <<n \div width, n % width>>

\* line 42 raises for pixel (j, i): IndexError when an index is out of the
\* grid, KeyError when a tag is not in DENSITY_MAPPING.  Nothing of the
\* grid is read when range(depth_slices) is empty.
LookupFails(grid, j, i, depth_slices) ==
    /\ depth_slices >= 1
    /\ \/ j >= grid.shape[1]
       \/ i >= grid.shape[2]
       \/ depth_slices > grid.shape[3]
       \/ \E k \in 0..(depth_slices - 1) : grid.data[<<j, i, k>>] \notin MappedTags

RECURSIVE SumSlices(_, _, _, _)
\* sum(DENSITY_MAPPING[voxel_grid[j][i][k]] for k in range(n))
SumSlices(grid, j, i, n) ==
    IF n <= 0 THEN 0
    ELSE SumSlices(grid, j, i, n - 1) + DENSITY_MAPPING[grid.data[<<j, i, n - 1>>]]

\* lines 42-43: raw_sum * step
ColumnDensity(grid, j, i, meta) ==
    SumSlices(grid, j, i, meta.depth_slices) * meta.step

\* what render_voxelgrid.py never touches
RenderFrame == UNCHANGED <<buildVars, marrowVars, rayVars, pimVars>>

\* lines 27-39: the metadata and the grid are read (either open raises if
\* the file is missing) and the projection is zeroed
RenderLoad ==
    /\ v_pc = "start"
    /\ Quiet(b_pc) /\ Quiet(m_pc)
    /\ log' = Append(log, "render_voxelgrid")
    /\ IF file_meta = NoFile \/ file_grid = NoFile
       THEN /\ v_pc' = "no_file"
            /\ UNCHANGED <<v_meta, v_grid, projection>>
       ELSE /\ v_pc' = "loop"
            /\ v_meta' \in file_meta
            /\ v_grid' \in file_grid
            /\ projection' = [px \in Pixels(v_meta'.width, v_meta'.height) |->
                                IntensityOf(0)]
    /\ v_next' = 0
    /\ UNCHANGED <<file_grid, file_marrow, file_meta, file_png>>
    /\ RenderFrame

\* lines 40-45 with the lookup DENSITY_MAPPING.get(tag, 0.0), which does not
\* raise for an unknown tag
RenderPixelTolerant ==
    /\ v_pc = "loop"
    /\ v_next < v_meta.width * v_meta.height
    /\ LET j == PixelAt(v_next, v_meta.width)[1]
           i == PixelAt(v_next, v_meta.width)[2]
           known == [shape |-> v_grid.shape,
                     data |-> [c \in DOMAIN v_grid.data |->
                                 IF v_grid.data[c] \in MappedTags
                                 THEN v_grid.data[c] ELSE "none"]]
       IN  IF LookupFails(known, j, i, v_meta.depth_slices)
           THEN /\ v_pc' = "aborted"
                /\ UNCHANGED <<projection, v_next>>
           ELSE /\ projection' =
                      [projection EXCEPT ![<<j, i>>] =
                          IntensityOf(ColumnDensity(known, j, i, v_meta))]
                /\ v_next' = v_next + 1
                /\ UNCHANGED v_pc
    /\ UNCHANGED <<fileVars, v_meta, v_grid>>
    /\ RenderFrame

\* lines 40-45: the next pixel of the row-major sweep
RenderPixel ==
    /\ v_pc = "loop"
    /\ v_next < v_meta.width * v_meta.height
    /\ LET j == PixelAt(v_next, v_meta.width)[1]
           i == PixelAt(v_next, v_meta.width)[2]
       IN  IF LookupFails(v_grid, j, i, v_meta.depth_slices)
           THEN /\ v_pc' = "aborted"
                /\ UNCHANGED <<projection, v_next>>
           ELSE /\ projection' =
                      [projection EXCEPT ![<<j, i>>] =
                          IntensityOf(ColumnDensity(v_grid, j, i, v_meta))]
                /\ v_next' = v_next + 1
                /\ UNCHANGED v_pc
    /\ UNCHANGED <<fileVars, v_meta, v_grid>>
    /\ RenderFrame

\* lines 49-62: the image is created, filled and saved
RenderSave ==
    /\ v_pc = "loop"
    /\ v_next >= v_meta.width * v_meta.height
    /\ file_png' = {[width |-> v_meta.width, height |-> v_meta.height,
                     gray |-> [px \in DOMAIN projection |-> Gray(projection[px])]]}
    /\ v_pc' = "done"
    /\ UNCHANGED <<file_grid, file_marrow, file_meta, log, v_meta, v_grid,
                   projection, v_next>>
    /\ RenderFrame

RenderNext ==
    \/ RenderLoad
    \/ RenderPixel
    \/ RenderSave

----------------------------------------------------------------------------
(* raycasting.py: the ray of one pixel *)
(* Distances are integers in units of 1e-5, densities in units of 0.01,    *)
(* optical depth in units of 1e-7, dot products in units of 1e-7.          *)

\* line 23: EPS_DIST = 1e-4
EPS_DIST == 10
\* line 109: the literal 1e-5 of max(EPS_DIST, 1e-5)
EXIT_MARGIN == 1
\* line 24: DOT_THRESHOLD = 1e-6
DOT_THRESHOLD == 10
\* the dot product of a head-on hit, 1.0
DotOne == 10000000

Max(a, b) == IF a >= b THEN a ELSE b
Abs(a) == IF a >= 0 THEN a ELSE -a

\* the mesh objects of the scenes, by name
ObjectNames == {"Skeleton", "Muscles", "Body"}

\* the substrings looked for that obj.name.lower() contains
LowerContains(name, sub) ==
    \/ name = "Skeleton" /\ sub = "skeleton"
    \/ name = "Muscles" /\ sub \in {"muscles", "muscle"}
    \/ name = "Muscle" /\ sub = "muscle"
    \/ name = "Body" /\ sub = "body"
    \/ name = "Cube" /\ FALSE

None == "None"

\* lines 33-41
classify_object(name) ==
    IF LowerContains(name, "skeleton") THEN "Bone"
    ELSE IF LowerContains(name, "muscles") THEN "Muscle"
    ELSE IF LowerContains(name, "body") THEN "Skin"
    ELSE None

\* lines 18-22, as shipped
DefaultDensityValues == [Bone |-> 50, Muscle |-> 8, Skin |-> 5]

\* lines 62-67 with object_to_density.get(o, 0.0) of lines 93 and 100
DensityOf(o) ==
    IF classify_object(o) # None THEN DENSITY_VALUES[classify_object(o)] ELSE 0

\* the density of the innermost solid alone
StackDensityInnermost(stack) ==
    IF stack = <<>> THEN 0 ELSE DensityOf(stack[Len(stack)])

RECURSIVE DensitySum(_)
DensitySum(stack) ==
    IF stack = <<>> THEN 0
    ELSE DensityOf(Head(stack)) + DensitySum(Tail(stack))

\* sum(object_to_density.get(o, 0.0) for o in inside_stack)
StackDensity(stack) == DensitySum(stack)

RECURSIVE RemoveFirst(_, _)
\* list.remove(x): drops the first occurrence
RemoveFirst(stack, x) ==
    IF stack = <<>> THEN <<>>
    ELSE IF Head(stack) = x THEN Tail(stack)
    ELSE <<Head(stack)>> \o RemoveFirst(Tail(stack), x)

InStack(stack, x) == \E k \in 1..Len(stack) : stack[k] = x

\* lines 107-108 with the test inverted
StackAfterExitInverted(stack, x) ==
    IF ~InStack(stack, x) THEN RemoveFirst(stack, x) ELSE stack

\* lines 107-108: elif hit_obj in inside_stack: inside_stack.remove(hit_obj)
StackAfterExit(stack, x) ==
    IF InStack(stack, x) THEN RemoveFirst(stack, x) ELSE stack

\* The surfaces of the scene along the ray.  A solid [obj, enter, exit, cos]
\* is met at its entry face, whose normal faces the ray (dot = -cos), and at
\* its exit face (dot = +cos).
Surfaces(sc) ==
    {[pos |-> sd.enter, obj |-> sd.obj, dot |-> -sd.cos] : sd \in sc} \cup
    {[pos |-> sd.exit, obj |-> sd.obj, dot |-> sd.cos] : sd \in sc}

\* scene.ray_cast(depsgraph, origin, ray_dir, distance): the nearest surfaces
\* at or beyond the origin and within the distance (empty: no hit)
RayCast(sc, origin, distance) ==
    LET ahead == {sf \in Surfaces(sc) :
                    sf.pos >= origin /\ sf.pos - origin <= distance}
    IN  {sf \in ahead : \A other \in ahead : sf.pos <= other.pos}

NoHit == [hit |-> FALSE, dist_to_hit |-> 0, dot_val |-> 0, hit_obj |-> None]

Hit(sf) ==
    [hit |-> TRUE, dist_to_hit |-> sf.pos - current_dist, dot_val |-> sf.dot,
     hit_obj |-> sf.obj]

\* what the loop never assigns
RayFixed ==
    UNCHANGED <<scene, DENSITY_VALUES, clip_start, clip_end, fileVars, buildVars,
                marrowVars, renderVars, pimVars, r_next, r_buffer>>

\* lines 92-94: no hit, the rest of the ray is accumulated and the loop
\* ends; line 111 writes the pixel
RayNoHit ==
    /\ r_pc = "loop"
    /\ current_dist < clip_end
    /\ RayCast(scene, current_dist, clip_end - current_dist) = {}
    /\ responses' = Append(responses, NoHit)
    /\ total_density' = total_density
                        + StackDensity(inside_stack) * (clip_end - current_dist)
    /\ r_projection' = [one_minus_exp_neg |-> total_density']
    /\ r_pc' = "done"
    /\ UNCHANGED <<inside_stack, current_dist>>
    /\ RayFixed

\* lines 95-98: a degenerate self-hit
RaySelfHit ==
    /\ r_pc = "loop"
    /\ current_dist < clip_end
    /\ \E sf \in RayCast(scene, current_dist, clip_end - current_dist) :
        /\ sf.pos - current_dist < EPS_DIST
        /\ responses' = Append(responses, Hit(sf))
        /\ current_dist' = current_dist + EPS_DIST
    /\ UNCHANGED <<inside_stack, total_density, r_projection, r_pc>>
    /\ RayFixed

\* lines 99-109 without the test of line 102: a near-grazing hit is pushed
\* or popped like any other; not the code's
RayGrazePushes ==
    /\ r_pc = "loop"
    /\ current_dist < clip_end
    /\ \E sf \in RayCast(scene, current_dist, clip_end - current_dist) :
        /\ sf.pos - current_dist >= EPS_DIST
        /\ Abs(sf.dot) < DOT_THRESHOLD
        /\ responses' = Append(responses, Hit(sf))
        /\ total_density' = total_density
                            + StackDensity(inside_stack) * (sf.pos - current_dist)
        /\ inside_stack' = IF sf.dot < 0 THEN Append(inside_stack, sf.obj)
                           ELSE StackAfterExit(inside_stack, sf.obj)
        /\ current_dist' = sf.pos + EPS_DIST
    /\ UNCHANGED <<r_projection, r_pc>>
    /\ RayFixed

\* lines 99-104: a near-grazing hit
RayGraze ==
    /\ r_pc = "loop"
    /\ current_dist < clip_end
    /\ \E sf \in RayCast(scene, current_dist, clip_end - current_dist) :
        /\ sf.pos - current_dist >= EPS_DIST
        /\ Abs(sf.dot) < DOT_THRESHOLD
        /\ responses' = Append(responses, Hit(sf))
        /\ total_density' = total_density
                            + StackDensity(inside_stack) * (sf.pos - current_dist)
        /\ current_dist' = sf.pos + EPS_DIST
    /\ UNCHANGED <<inside_stack, r_projection, r_pc>>
    /\ RayFixed

\* lines 99-101, 105-106, 109: an entry-facing hit pushes the solid
RayEnter ==
    /\ r_pc = "loop"
    /\ current_dist < clip_end
    /\ \E sf \in RayCast(scene, current_dist, clip_end - current_dist) :
        /\ sf.pos - current_dist >= EPS_DIST
        /\ Abs(sf.dot) >= DOT_THRESHOLD
        /\ sf.dot < 0
        /\ responses' = Append(responses, Hit(sf))
        /\ total_density' = total_density
                            + StackDensity(inside_stack) * (sf.pos - current_dist)
        /\ inside_stack' = Append(inside_stack, sf.obj)
        /\ current_dist' = sf.pos + Max(EPS_DIST, EXIT_MARGIN)
    /\ UNCHANGED <<r_projection, r_pc>>
    /\ RayFixed

\* lines 99-101, 107-109: an exit-facing hit removes the solid if it is on
\* the stack
RayExit ==
    /\ r_pc = "loop"
    /\ current_dist < clip_end
    /\ \E sf \in RayCast(scene, current_dist, clip_end - current_dist) :
        /\ sf.pos - current_dist >= EPS_DIST
        /\ Abs(sf.dot) >= DOT_THRESHOLD
        /\ sf.dot >= 0
        /\ responses' = Append(responses, Hit(sf))
        /\ total_density' = total_density
                            + StackDensity(inside_stack) * (sf.pos - current_dist)
        /\ inside_stack' = StackAfterExit(inside_stack, sf.obj)
        /\ current_dist' = sf.pos + Max(EPS_DIST, EXIT_MARGIN)
    /\ UNCHANGED <<r_projection, r_pc>>
    /\ RayFixed

\* line 89 false: the loop ends at the far clip; line 111 writes the pixel
RayFarClip ==
    /\ r_pc = "loop"
    /\ current_dist >= clip_end
    /\ r_pc' = "done"
    /\ r_projection' = [one_minus_exp_neg |-> total_density]
    /\ UNCHANGED <<inside_stack, total_density, current_dist, responses>>
    /\ RayFixed

RayNext ==
    \/ RayNoHit
    \/ RaySelfHit
    \/ RayGraze
    \/ RayEnter
    \/ RayExit
    \/ RayFarClip

\* lines 85-87
RayStart ==
    /\ r_pc = "loop"
    /\ inside_stack = <<>>
    /\ total_density = 0
    /\ current_dist = clip_start
    /\ responses = <<>>
    /\ r_projection = Unset
    /\ r_next = 0
    /\ r_buffer = <<>>

----------------------------------------------------------------------------
(* raycasting.py: the loop body against any response of scene.ray_cast *)

\* lines 91-109 with a degenerate self-hit moving the origin by less than
\* EPS_DIST; not the code's
RayIterationShortAdvance(resp) ==
    IF ~resp.hit
    THEN /\ total_density' = total_density
                             + StackDensity(inside_stack) * (clip_end - current_dist)
         /\ r_pc' = "done"
         /\ r_projection' = [one_minus_exp_neg |-> total_density']
         /\ UNCHANGED <<inside_stack, current_dist>>
    ELSE IF resp.dist_to_hit < EPS_DIST
    THEN /\ current_dist' = current_dist + EPS_DIST - 1
         /\ UNCHANGED <<inside_stack, total_density, r_projection, r_pc>>
    ELSE /\ total_density' = total_density
                             + StackDensity(inside_stack) * resp.dist_to_hit
         /\ inside_stack' =
               IF Abs(resp.dot_val) < DOT_THRESHOLD THEN inside_stack
               ELSE IF resp.dot_val < 0 THEN Append(inside_stack, resp.hit_obj)
               ELSE StackAfterExit(inside_stack, resp.hit_obj)
         /\ current_dist' =
               current_dist + resp.dist_to_hit
               + (IF Abs(resp.dot_val) < DOT_THRESHOLD THEN EPS_DIST
                  ELSE Max(EPS_DIST, EXIT_MARGIN))
         /\ UNCHANGED <<r_projection, r_pc>>

\* lines 91-109: one iteration of the loop on the response resp
RayIteration(resp) ==
    IF ~resp.hit
    THEN /\ total_density' = total_density
                             + StackDensity(inside_stack) * (clip_end - current_dist)
         /\ r_pc' = "done"
         /\ r_projection' = [one_minus_exp_neg |-> total_density']
         /\ UNCHANGED <<inside_stack, current_dist>>
    ELSE IF resp.dist_to_hit < EPS_DIST
    THEN /\ current_dist' = current_dist + EPS_DIST
         /\ UNCHANGED <<inside_stack, total_density, r_projection, r_pc>>
    ELSE /\ total_density' = total_density
                             + StackDensity(inside_stack) * resp.dist_to_hit
         /\ inside_stack' =
               IF Abs(resp.dot_val) < DOT_THRESHOLD THEN inside_stack
               ELSE IF resp.dot_val < 0 THEN Append(inside_stack, resp.hit_obj)
               ELSE StackAfterExit(inside_stack, resp.hit_obj)
         /\ current_dist' =
               current_dist + resp.dist_to_hit
               + (IF Abs(resp.dot_val) < DOT_THRESHOLD THEN EPS_DIST
                  ELSE Max(EPS_DIST, EXIT_MARGIN))
         /\ UNCHANGED <<r_projection, r_pc>>

\* the hit distances, dot products and objects a response may carry
OracleDists == {0, EPS_DIST - 1, EPS_DIST, 2 * EPS_DIST}

OracleDots == {-DotOne, -(DOT_THRESHOLD - 1), DOT_THRESHOLD - 1, DotOne}

OracleObjects == {"Skeleton", "Body"}

\* line 91: no hit, or a hit within the distance asked for
OracleResponses(distance) ==
    {NoHit} \cup
    {[hit |-> TRUE, dist_to_hit |-> d, dot_val |-> c, hit_obj |-> o] :
        d \in {x \in OracleDists : x <= distance}, c \in OracleDots,
        o \in OracleObjects}

\* lines 89-109: one iteration, whatever scene.ray_cast answers
OracleStep ==
    /\ r_pc = "loop"
    /\ current_dist < clip_end
    /\ \E resp \in OracleResponses(clip_end - current_dist) :
         /\ responses' = Append(responses, resp)
         /\ RayIteration(resp)
    /\ RayFixed

----------------------------------------------------------------------------
(* raycasting.py: the sweep over the pixels *)
(* In a sweep scene[n] holds the solids the ray of pixel n meets, pixels   *)
(* numbered row by row as the loops of lines 72-74 reach them, and         *)
(* r_buffer[n] is projection[j][i] of that pixel.                          *)

\* line 91 for the ray of one pixel: what scene.ray_cast returns
SceneResponses(sc, from, distance) ==
    IF RayCast(sc, from, distance) = {} THEN {NoHit}
    ELSE {[hit |-> TRUE, dist_to_hit |-> sf.pos - from, dot_val |-> sf.dot,
           hit_obj |-> sf.obj] : sf \in RayCast(sc, from, distance)}

\* lines 89-109 for the pixel being swept
SweepStep ==
    /\ r_pc = "loop"
    /\ r_next < Len(r_buffer)
    /\ current_dist < clip_end
    /\ \E resp \in SceneResponses(scene[r_next + 1], current_dist,
                                  clip_end - current_dist) :
         /\ responses' = Append(responses, resp)
         /\ RayIteration(resp)
    /\ RayFixed

\* line 111 and lines 72-87 with the stack and the accumulator of the last
\* pixel kept for the next; not the code's
SweepWriteKeepsState ==
    /\ r_pc = "done"
    /\ r_next < Len(r_buffer)
    /\ r_buffer' = [r_buffer EXCEPT ![r_next + 1] = r_projection]
    /\ r_next' = r_next + 1
    /\ IF r_next' < Len(r_buffer)
       THEN /\ r_pc' = "loop"
            /\ current_dist' = clip_start
            /\ responses' = <<>>
            /\ UNCHANGED <<inside_stack, total_density>>
       ELSE /\ r_pc' = "swept"
            /\ UNCHANGED <<inside_stack, total_density, current_dist, responses>>
    /\ UNCHANGED <<scene, DENSITY_VALUES, clip_start, clip_end, r_projection,
                   fileVars, buildVars, marrowVars, renderVars, pimVars>>

\* line 111, the pixel's cell is written, and lines 72-87 for the next pixel
\* if there is one: an empty stack, a zero accumulator, the near clip
SweepWrite ==
    /\ r_pc = "done"
    /\ r_next < Len(r_buffer)
    /\ r_buffer' = [r_buffer EXCEPT ![r_next + 1] = r_projection]
    /\ r_next' = r_next + 1
    /\ IF r_next' < Len(r_buffer)
       THEN /\ r_pc' = "loop"
            /\ inside_stack' = <<>>
            /\ total_density' = 0
            /\ current_dist' = clip_start
            /\ responses' = <<>>
       ELSE /\ r_pc' = "swept"
            /\ UNCHANGED <<inside_stack, total_density, current_dist, responses>>
    /\ UNCHANGED <<scene, DENSITY_VALUES, clip_start, clip_end, r_projection,
                   fileVars, buildVars, marrowVars, renderVars, pimVars>>

----------------------------------------------------------------------------
(* voxelgrid.py: point_in_mesh_local against any response of obj.ray_cast *)
(* Positions are taken along the local +X axis relative to point_local, in *)
(* units of 1e-5; a hit lies at or beyond the origin of the cast.          *)

\* line 36 (1e8), scaled down
PimMaxDist == 200

\* lines 38 and 45: 1e-4
PimOffset == 10

\* the distances from the origin of the cast at which a hit may lie
PimDists == {0, 7, 30}

\* what point_in_mesh_local never assigns
PimFrame == UNCHANGED <<fileVars, buildVars, marrowVars, renderVars, rayVars>>

\* lines 39-43 and 50: no hit, the loop breaks and the parity is returned
PimMiss ==
    /\ p_pc = "loop"
    /\ p_pc' = "done"
    /\ p_inside' = (p_hits % 2 = 1)
    /\ UNCHANGED <<p_origin, p_max_dist, p_hits>>
    /\ PimFrame

\* lines 39-49 with the budget reduced by the distance of the hit from the
\* origin of the cast, which may be 0; not the code's
PimHitBudgetFromOrigin ==
    /\ p_pc = "loop"
    /\ \E d \in PimDists :
         LET loc == p_origin + d
         IN  /\ p_hits' = p_hits + 1
             /\ p_origin' = loc + PimOffset
             /\ p_max_dist' = p_max_dist - d
             /\ IF p_max_dist' <= 0
                THEN p_pc' = "done" /\ p_inside' = (p_hits' % 2 = 1)
                ELSE p_pc' = "loop" /\ p_inside' = p_inside
    /\ PimFrame

\* lines 39-49 and 50: a hit at loc is counted, the origin moves past it and
\* the budget is reduced by (loc - point_local).length; the loop breaks when
\* the budget is used up
PimHit ==
    /\ p_pc = "loop"
    /\ \E d \in PimDists :
         LET loc == p_origin + d
         IN  /\ p_hits' = p_hits + 1
             /\ p_origin' = loc + PimOffset
             /\ p_max_dist' = p_max_dist - loc
             /\ IF p_max_dist' <= 0
                THEN p_pc' = "done" /\ p_inside' = (p_hits' % 2 = 1)
                ELSE p_pc' = "loop" /\ p_inside' = p_inside
    /\ PimFrame

PimNext ==
    \/ PimMiss
    \/ PimHit

----------------------------------------------------------------------------
(* voxelgrid.py: the depth range and the slices of one ray *)
(* The image is one pixel wide and high and the ray runs along the camera  *)
(* axis, so that a vertex's depth -cam_co.z is its distance along the ray. *)
(* A sample position is kept multiplied by FracDen * DEPTH_SLICES, which   *)
(* makes base_dist + frac * step + EPSILON an integer.                     *)

\* line 19, scaled down
DEPTH_SLICES == 12

\* line 20
SUB_STEPS == 2

\* line 23, 1e-5
EPSILON == 1

\* the values of random.random() (line 177) are the multiples of 1/FracDen
FracDen == 2

VoxelTypes == {"skeleton", "muscle", "body"}

\* lines 85-92: the key of objects_by_type the object is appended to
TypeOf(name) ==
    IF LowerContains(name, "skeleton") THEN "skeleton"
    ELSE IF LowerContains(name, "muscle") THEN "muscle"
    ELSE IF LowerContains(name, "body") THEN "body"
    ELSE None

objects_by_type(sc) == [t \in VoxelTypes |-> {sd \in sc : TypeOf(sd.obj) = t}]

\* lines 100-110: the depths of the vertices in front of the camera
VertexDists(sc) ==
    {d \in UNION {{sd.enter, sd.exit} :
                    sd \in UNION {objects_by_type(sc)[t] : t \in VoxelTypes}} :
        d > 0}

SetMin(S) == CHOOSE x \in S : \A y \in S : x <= y

SetMax(S) == CHOOSE x \in S : \A y \in S : x >= y

Min(a, b) == IF a <= b THEN a ELSE b

\* lines 98-120: min_dist and depth_range
DepthRange(sc) ==
    LET found == VertexDists(sc) # {}
        lo == Max(IF found THEN SetMin(VertexDists(sc)) ELSE clip_start,
                  clip_start)
        hi == Min(IF found THEN SetMax(VertexDists(sc)) ELSE clip_end,
                  clip_end)
    IN  IF hi - lo <= 0
        THEN [min_dist |-> clip_start, depth_range |-> clip_end - clip_start]
        ELSE [min_dist |-> lo, depth_range |-> hi - lo]

\* lines 178-179: dist_sub + EPSILON for slice k and frac = f / FracDen
SamplePos(k, f) ==
    (b_min_dist + EPSILON) * FracDen * DEPTH_SLICES + (FracDen * k + f) * b_step

\* lines 37-49: the surfaces of the solid the local +X ray crosses, one from
\* a point inside it, none or both from a point outside
HitCounts(sd, pos) ==
    IF /\ sd.enter * FracDen * DEPTH_SLICES < pos
       /\ pos < sd.exit * FracDen * DEPTH_SLICES
    THEN {1} ELSE {0, 2}

\* lines 28-50
point_in_mesh_local(sd, pos) == \A hits \in HitCounts(sd, pos) : hits % 2 = 1

\* lines 140-148 with the buckets tested in the opposite order; not the
\* code's
get_tag_body_first(sc, pos) ==
    IF \E o \in objects_by_type(sc)["body"] : point_in_mesh_local(o, pos)
    THEN "body"
    ELSE IF \E o \in objects_by_type(sc)["muscle"] : point_in_mesh_local(o, pos)
    THEN "muscle"
    ELSE IF \E o \in objects_by_type(sc)["skeleton"] : point_in_mesh_local(o, pos)
    THEN "skeleton"
    ELSE "none"

\* lines 140-148
get_tag(sc, pos) ==
    IF \E o \in objects_by_type(sc)["skeleton"] : point_in_mesh_local(o, pos)
    THEN "skeleton"
    ELSE IF \E o \in objects_by_type(sc)["muscle"] : point_in_mesh_local(o, pos)
    THEN "muscle"
    ELSE IF \E o \in objects_by_type(sc)["body"] : point_in_mesh_local(o, pos)
    THEN "body"
    ELSE "none"

\* lines 181-188
VoxelTag(observed) ==
    IF "skeleton" \in observed THEN "skeleton"
    ELSE IF "muscle" \in observed THEN "muscle"
    ELSE IF "body" \in observed THEN "body"
    ELSE "none"

\* lines 55-134 and 154-170 for the one pixel: the depth range, the step,
\* the grid of "none" and the per-ray flags
BuilderRange ==
    /\ b_pc = "start"
    /\ Quiet(m_pc) /\ Quiet(v_pc) /\ r_pc \in {"idle", "done"}
    /\ log' = Append(log, "voxelgrid")
    /\ b_min_dist' = DepthRange(scene).min_dist
    /\ b_step' = DepthRange(scene).depth_range
    /\ b_voxel_grid' = [shape |-> <<1, 1, DEPTH_SLICES>>,
                        data |-> [c \in Cells(<<1, 1, DEPTH_SLICES>>) |-> "none"]]
    /\ b_k' = 0
    /\ found_geometry' = FALSE
    /\ exited_geometry' = FALSE
    /\ empty_count' = 0
    /\ b_pc' = "ray"
    /\ UNCHANGED <<file_grid, file_marrow, file_meta, file_png, MAX_EMPTY,
                   pt_sample, tags>>
    /\ BuildFrame

\* lines 172-197 with the empty slices counted from the first slice on,
\* geometry seen or not; not the code's
BuilderSliceCountsLeading ==
    /\ b_pc = "ray"
    /\ b_k < DEPTH_SLICES
    /\ ~exited_geometry
    /\ \E frac \in [1..SUB_STEPS -> 0..(FracDen - 1)] :
         LET points == [s \in 1..SUB_STEPS |-> SamplePos(b_k, frac[s])]
             sampled == [s \in 1..SUB_STEPS |-> get_tag(scene, points[s])]
             voxel_tag == VoxelTag({sampled[s] : s \in 1..SUB_STEPS})
         IN  /\ pt_sample' = points
             /\ tags' = sampled
             /\ b_voxel_grid' =
                   [b_voxel_grid EXCEPT !.data[<<0, 0, b_k>>] = voxel_tag]
             /\ found_geometry' = (found_geometry \/ voxel_tag # "none")
             /\ empty_count' = IF voxel_tag # "none" THEN 0 ELSE empty_count + 1
             /\ exited_geometry' =
                   (voxel_tag = "none" /\ empty_count + 1 > MAX_EMPTY)
    /\ b_k' = b_k + 1
    /\ UNCHANGED <<file_grid, file_marrow, file_meta, file_png, log, b_pc,
                   b_step, b_min_dist, MAX_EMPTY>>
    /\ BuildFrame

\* lines 172-197: one slice of the ray
BuilderSlice ==
    /\ b_pc = "ray"
    /\ b_k < DEPTH_SLICES
    /\ ~exited_geometry
    /\ \E frac \in [1..SUB_STEPS -> 0..(FracDen - 1)] :
         LET points == [s \in 1..SUB_STEPS |-> SamplePos(b_k, frac[s])]
             sampled == [s \in 1..SUB_STEPS |-> get_tag(scene, points[s])]
             voxel_tag == VoxelTag({sampled[s] : s \in 1..SUB_STEPS})
         IN  /\ pt_sample' = points
             /\ tags' = sampled
             /\ b_voxel_grid' =
                   [b_voxel_grid EXCEPT !.data[<<0, 0, b_k>>] = voxel_tag]
             /\ found_geometry' = (found_geometry \/ voxel_tag # "none")
             /\ empty_count' =
                   IF voxel_tag # "none" THEN 0
                   ELSE IF found_geometry THEN empty_count + 1
                   ELSE empty_count
             /\ exited_geometry' =
                   (voxel_tag = "none" /\ found_geometry
                    /\ empty_count + 1 > MAX_EMPTY)
    /\ b_k' = b_k + 1
    /\ UNCHANGED <<file_grid, file_marrow, file_meta, file_png, log, b_pc,
                   b_step, b_min_dist, MAX_EMPTY>>
    /\ BuildFrame

\* lines 172-174 and 198-201: the slices are exhausted or the ray has left
\* the geometry, and this was the last pixel
BuilderRayEnd ==
    /\ b_pc = "ray"
    /\ b_k = DEPTH_SLICES \/ exited_geometry
    /\ b_pc' = "filled"
    /\ UNCHANGED <<file_grid, file_marrow, file_meta, file_png, log,
                   b_voxel_grid, b_step, b_min_dist, b_k, MAX_EMPTY,
                   found_geometry, exited_geometry, empty_count, pt_sample,
                   tags>>
    /\ BuildFrame

\* the ray integrator is not run
RayIdle ==
    /\ scene = {}
    /\ DENSITY_VALUES = DefaultDensityValues
    /\ clip_start = 0
    /\ clip_end = 0
    /\ r_pc = "idle"
    /\ inside_stack = <<>>
    /\ total_density = 0
    /\ current_dist = 0
    /\ responses = <<>>
    /\ r_projection = Unset
    /\ r_next = 0
    /\ r_buffer = <<>>

\* the eroder is not run
MarrowIdle ==
    /\ SHELL_THICKNESS = 1
    /\ m_pc = "idle"
    /\ voxel_grid = Unset
    /\ skeleton_mask = Unset
    /\ eroded = Unset
    /\ new_mask = Unset
    /\ it = 0
    /\ interior_mask = Unset
    /\ output_grid = Unset

\* the builder is not run
BuildIdle ==
    /\ b_pc = "idle"
    /\ b_voxel_grid = Unset
    /\ b_step = 0
    /\ MAX_EMPTY = 0
    /\ b_min_dist = 0
    /\ b_k = 0
    /\ found_geometry = FALSE
    /\ exited_geometry = FALSE
    /\ empty_count = 0
    /\ pt_sample = <<>>
    /\ tags = <<>>

\* the discrete integrator is not run
RenderIdle ==
    /\ v_pc = "idle"
    /\ v_meta = Unset
    /\ v_grid = Unset
    /\ projection = Unset
    /\ v_next = 0

RenderStart ==
    /\ v_pc = "start"
    /\ v_meta = Unset
    /\ v_grid = Unset
    /\ projection = Unset
    /\ v_next = 0

NoFiles ==
    /\ file_grid = NoFile
    /\ file_marrow = NoFile
    /\ file_meta = NoFile
    /\ file_png = NoFile
    /\ log = <<>>

----------------------------------------------------------------------------
(* The eroder run on a grid the builder left in voxel_grid.npy *)

InitErode ==
    /\ \E shape \in Shapes : \E b \in Blocks(shape) :
         \E inTag \in BuilderTags, outTag \in BuilderTags :
            file_grid = {BoxGrid(shape, b[1], b[2], inTag, outTag)}
    /\ file_marrow = NoFile
    /\ file_meta = NoFile
    /\ file_png = NoFile
    /\ log = <<>>
    /\ BuildIdle
    /\ RenderIdle
    /\ SHELL_THICKNESS \in 0..MaxShell
    /\ MarrowStart
    /\ RayIdle
    /\ PimIdle

SpecErode == InitErode /\ [][MarrowNext]_vars

\* The eroder run on the grids of two tags: a block of skeleton in none, or
\* of none in skeleton, in a grid of any shape.
InitBorder ==
    /\ \E shape \in Shapes : \E b \in Blocks(shape) :
         \E t \in {<<"skeleton", "none">>, <<"none", "skeleton">>} :
            file_grid = {BoxGrid(shape, b[1], b[2], t[1], t[2])}
    /\ file_marrow = NoFile
    /\ file_meta = NoFile
    /\ file_png = NoFile
    /\ log = <<>>
    /\ BuildIdle
    /\ RenderIdle
    /\ SHELL_THICKNESS \in 0..MaxShell
    /\ MarrowStart
    /\ RayIdle
    /\ PimIdle

SpecBorder == InitBorder /\ [][MarrowNext]_vars

\* The 5 x 5 x 5 scenario grids: a block of skeleton in a grid of none.
ScenarioShape == <<5, 5, 5>>

InitScenario ==
    /\ \E b \in Blocks(ScenarioShape) :
            file_grid = {BoxGrid(ScenarioShape, b[1], b[2], "skeleton", "none")}
    /\ file_marrow = NoFile
    /\ file_meta = NoFile
    /\ file_png = NoFile
    /\ log = <<>>
    /\ BuildIdle
    /\ RenderIdle
    /\ SHELL_THICKNESS \in 0..MaxShell
    /\ MarrowStart
    /\ RayIdle
    /\ PimIdle

SpecScenario == InitScenario /\ [][MarrowNext]_vars

----------------------------------------------------------------------------
(* The ray march of one pixel through a scene of solids *)

\* most solids on one ray
MaxSolids == 2
\* the far clip lies RayDepth beyond the near clip
RayDepth == 90
\* the concentric solids start up to MaxLead beyond the near clip
MaxLead == 30

\* where along the ray, from the near clip, the faces of the solids lie:
\* closer than EPS_DIST to each other, between one and two EPS_DIST, further
SurfaceOffsets ==
    {3, EPS_DIST, EPS_DIST + 3, 3 * EPS_DIST + 3, 6 * EPS_DIST, 8 * EPS_DIST}

\* |ray_dir . hit_norm| of a solid's faces: near-grazing, at the threshold,
\* head-on
Cosines == {DOT_THRESHOLD - 1, DOT_THRESHOLD, DotOne}

Slabs(near) ==
    {[enter |-> near + a, exit |-> near + b, cos |-> c] :
        a \in SurfaceOffsets, b \in SurfaceOffsets, c \in Cosines}

\* one solid per object, at most MaxSolids objects
InitRayFamily ==
    /\ clip_start = 10 * EPS_DIST
    /\ clip_end = clip_start + RayDepth
    /\ DENSITY_VALUES = DefaultDensityValues
    /\ \E objs \in SUBSET ObjectNames :
         /\ Cardinality(objs) <= MaxSolids
         /\ \E f \in [objs -> {sl \in Slabs(clip_start) : sl.enter < sl.exit}] :
              scene = {[obj |-> o, enter |-> f[o].enter, exit |-> f[o].exit,
                        cos |-> f[o].cos] : o \in objs}

\* The concentric scenario: a body 1.0 thick of density 0.1 around a
\* skeleton 0.5 thick of density 0.5 at its centre.
ConcentricDensityValues == [Bone |-> 50, Muscle |-> 8, Skin |-> 10]

Concentric(lead, c) ==
    {[obj |-> "Body", enter |-> lead, exit |-> lead + 100000, cos |-> c],
     [obj |-> "Skeleton", enter |-> lead + 25000, exit |-> lead + 75000,
      cos |-> c]}

InitConcentric ==
    /\ clip_start = 10 * EPS_DIST
    /\ DENSITY_VALUES = ConcentricDensityValues
    /\ \E lead \in 0..MaxLead, c \in Cosines, beyond \in {EPS_DIST - 1, RayDepth} :
         /\ scene = Concentric(clip_start + lead, c)
         /\ clip_end = clip_start + lead + 100000 + beyond

InitRay ==
    /\ InitRayFamily \/ InitConcentric
    /\ RayStart
    /\ PimIdle
    /\ BuildIdle
    /\ MarrowIdle
    /\ RenderIdle
    /\ NoFiles

SpecRay == InitRay /\ [][RayNext]_vars

----------------------------------------------------------------------------
(* The discrete integrator run on whatever the directory holds *)

\* largest extent of an axis of the grids the integrator is run on
MaxPix == 2

RenderShapes == (1..MaxPix) \X (1..MaxPix) \X (1..MaxPix)

\* the metadata that matches the grid
MetaOf(grid, step) ==
    [width |-> grid.shape[2], height |-> grid.shape[1], step |-> step,
     depth_slices |-> grid.shape[3]]

\* metadata that differs from the matching one in at most one field
MetaFamily(grid) ==
    LET good == MetaOf(grid, 3)
    IN  {good}
        \cup {[good EXCEPT !.width = w] : w \in {good.width - 1, good.width + 1} \ {0}}
        \cup {[good EXCEPT !.height = h] : h \in {good.height - 1, good.height + 1} \ {0}}
        \cup {[good EXCEPT !.depth_slices = d] :
                 d \in {-1, 0, good.depth_slices - 1, good.depth_slices + 1}}
        \cup {[good EXCEPT !.step = st] : st \in {-2, 0}}

InitRender ==
    /\ \E shape \in RenderShapes : \E b \in Blocks(shape) :
         \E inTag \in {"skeleton", "muscle", "marrow", "fat"},
            outTag \in {"none", "body", "fat"} :
            /\ file_grid = {BoxGrid(shape, b[1], b[2], inTag, outTag)}
            /\ \E meta \in MetaFamily(BoxGrid(shape, b[1], b[2], inTag, outTag)) :
                  file_meta \in {{meta}, NoFile}
    /\ file_marrow = NoFile
    /\ file_png = NoFile
    /\ log = <<>>
    /\ RenderStart
    /\ BuildIdle
    /\ MarrowIdle
    /\ RayIdle
    /\ PimIdle

SpecRender == InitRender /\ [][RenderNext]_vars

----------------------------------------------------------------------------
(* The three scripts of Approach 3 run one after another, in any order, in *)
(* an empty directory *)

InitPipeline ==
    /\ NoFiles
    /\ b_pc = "start"
    /\ b_voxel_grid = Unset
    /\ b_step = 3
    /\ MAX_EMPTY = 0
    /\ b_min_dist = 0
    /\ b_k = 0
    /\ found_geometry = FALSE
    /\ exited_geometry = FALSE
    /\ empty_count = 0
    /\ pt_sample = <<>>
    /\ tags = <<>>
    /\ SHELL_THICKNESS = 1
    /\ MarrowStart
    /\ RenderStart
    /\ RayIdle
    /\ PimIdle

PipelineNext ==
    \/ BuilderFillAny
    \/ BuilderSave
    \/ MarrowLoad
    \/ MarrowMask
    \/ ErodeCompute
    \/ ErodeAssign
    \/ MarrowReclassify
    \/ MarrowSave
    \/ RenderLoad
    \/ RenderPixel
    \/ RenderSave

SpecPipeline == InitPipeline /\ [][PipelineNext]_vars

----------------------------------------------------------------------------
(* One scene measured by both integrators: the ray march of Approach 2 on  *)
(* the central ray, then the builder and the discrete integrator of        *)
(* Approach 3 on a one-pixel image.                                        *)

ConsistencyOffsets == {3, 500, 1500, 1800, 2400, 2995}

\* solids met head-on, and one met near-grazing
ConsistencySlabs(near) ==
    {[enter |-> near + a, exit |-> near + b, cos |-> DotOne] :
        a \in ConsistencyOffsets, b \in ConsistencyOffsets}
    \cup {[enter |-> near + 500, exit |-> near + 1500, cos |-> DOT_THRESHOLD - 1]}

InitConsistency ==
    /\ NoFiles
    /\ clip_start = 1000
    /\ clip_end = 4000
    /\ DENSITY_VALUES = DefaultDensityValues
    /\ \E objs \in SUBSET ObjectNames :
         /\ Cardinality(objs) <= MaxSolids
         /\ \E f \in [objs -> {sl \in ConsistencySlabs(clip_start) :
                                 sl.enter < sl.exit}] :
              scene = {[obj |-> o, enter |-> f[o].enter, exit |-> f[o].exit,
                        cos |-> f[o].cos] : o \in objs}
    /\ RayStart
    /\ PimIdle
    /\ b_pc = "start"
    /\ b_voxel_grid = Unset
    /\ b_step = 0
    /\ MAX_EMPTY \in {1, DEPTH_SLICES}
    /\ b_min_dist = 0
    /\ b_k = 0
    /\ found_geometry = FALSE
    /\ exited_geometry = FALSE
    /\ empty_count = 0
    /\ pt_sample = <<>>
    /\ tags = <<>>
    /\ MarrowIdle
    /\ RenderStart

ConsistencyNext ==
    \/ RayNoHit
    \/ RaySelfHit
    \/ RayGraze
    \/ RayEnter
    \/ RayExit
    \/ RayFarClip
    \/ BuilderRange
    \/ BuilderSlice
    \/ BuilderRayEnd
    \/ BuilderSave
    \/ RenderLoad
    \/ RenderPixel
    \/ RenderSave

SpecConsistency == InitConsistency /\ [][ConsistencyNext]_vars

----------------------------------------------------------------------------
(* The builder run on a scene of solids, one pixel *)

\* largest MAX_EMPTY explored
MaxEmpty == 2

\* where a solid enters and exits the ray: thin or thick against the step,
\* apart, touching or overlapping
BuilderIntervals ==
    {<<500, 540>>, <<500, 1000>>, <<1000, 1200>>, <<1200, 2400>>,
     <<2360, 2400>>, <<540, 2400>>}

\* every object of the scene present or not
InitBuilder ==
    /\ NoFiles
    /\ clip_start = 100
    /\ clip_end = 4000
    /\ DENSITY_VALUES = DefaultDensityValues
    /\ \E objs \in SUBSET ObjectNames :
         \E f \in [objs -> BuilderIntervals] :
              scene = {[obj |-> o, enter |-> f[o][1], exit |-> f[o][2],
                        cos |-> DotOne] : o \in objs}
    /\ r_pc = "idle"
    /\ inside_stack = <<>>
    /\ total_density = 0
    /\ current_dist = 0
    /\ responses = <<>>
    /\ r_projection = Unset
    /\ r_next = 0
    /\ r_buffer = <<>>
    /\ PimIdle
    /\ b_pc = "start"
    /\ b_voxel_grid = Unset
    /\ b_step = 0
    /\ MAX_EMPTY \in 0..MaxEmpty
    /\ b_min_dist = 0
    /\ b_k = 0
    /\ found_geometry = FALSE
    /\ exited_geometry = FALSE
    /\ empty_count = 0
    /\ pt_sample = <<>>
    /\ tags = <<>>
    /\ MarrowIdle
    /\ RenderIdle

BuilderNext ==
    \/ BuilderRange
    \/ BuilderSlice
    \/ BuilderRayEnd
    \/ BuilderSave

SpecBuilder == InitBuilder /\ [][BuilderNext]_vars

----------------------------------------------------------------------------
(* The ray march of one pixel against any sequence of ray_cast responses *)

\* the far clip lies MaxIterations * EPS_DIST beyond the near clip; the pixel
\* holds the 0.0 of line 69 until line 111 writes it
MaxIterations == 3

InitOracle ==
    /\ scene = {}
    /\ DENSITY_VALUES = DefaultDensityValues
    /\ clip_start = 10 * EPS_DIST
    /\ clip_end = clip_start + MaxIterations * EPS_DIST
    /\ r_pc = "loop"
    /\ inside_stack = <<>>
    /\ total_density = 0
    /\ current_dist = clip_start
    /\ responses = <<>>
    /\ r_projection = IntensityOf(0)
    /\ r_next = 0
    /\ r_buffer = <<>>
    /\ PimIdle
    /\ NoFiles
    /\ BuildIdle
    /\ MarrowIdle
    /\ RenderIdle

OracleNext ==
    \/ OracleStep
    \/ RayFarClip

SpecOracle == InitOracle /\ [][OracleNext]_vars

\* the script runs on: the loop is not suspended forever (every step of
\* the loop changes r_pc or current_dist)
SpecOracleLive == SpecOracle /\ WF_<<r_pc, current_dist>>(OracleNext)

----------------------------------------------------------------------------
(* One call of point_in_mesh_local against any sequence of responses *)

\* lines 33-38
InitPim ==
    /\ p_pc = "loop"
    /\ p_origin = PimOffset
    /\ p_max_dist = PimMaxDist
    /\ p_hits = 0
    /\ p_inside = FALSE
    /\ NoFiles
    /\ BuildIdle
    /\ MarrowIdle
    /\ RenderIdle
    /\ RayIdle

\* the call runs on: the loop is not suspended forever
SpecPim == InitPim /\ [][PimNext]_vars /\ WF_pimVars(PimNext)

----------------------------------------------------------------------------
(* A sweep of either integrator over the pixels of an image *)

\* pixels of the image the ray march sweeps
SweepPixels == 3

\* the solids on a ray: none; a skeleton; a skeleton inside a body that
\* ends within EPS_DIST of the far clip; a skeleton thinner than
\* 2 * EPS_DIST, whose exit the march misses
SweepRays ==
    {{},
     {[obj |-> "Skeleton", enter |-> 120, exit |-> 160, cos |-> DotOne]},
     {[obj |-> "Body", enter |-> 115, exit |-> 185, cos |-> DotOne],
      [obj |-> "Skeleton", enter |-> 130, exit |-> 160, cos |-> DotOne]},
     {[obj |-> "Skeleton", enter |-> 120, exit |-> 125, cos |-> DotOne]}}

\* lines 56-69 and 72-87 for the first pixel
InitRaySweep ==
    /\ scene \in [1..SweepPixels -> SweepRays]
    /\ DENSITY_VALUES = DefaultDensityValues
    /\ clip_start = 10 * EPS_DIST
    /\ clip_end = clip_start + RayDepth
    /\ r_pc = "loop"
    /\ inside_stack = <<>>
    /\ total_density = 0
    /\ current_dist = clip_start
    /\ responses = <<>>
    /\ r_projection = IntensityOf(0)
    /\ r_next = 0
    /\ r_buffer = [n \in 1..SweepPixels |-> IntensityOf(0)]
    /\ PimIdle
    /\ NoFiles
    /\ BuildIdle
    /\ MarrowIdle
    /\ RenderIdle

InitSweep == InitRaySweep \/ InitRender

SweepNext ==
    \/ SweepStep
    \/ RayFarClip
    \/ SweepWrite
    \/ RenderLoad
    \/ RenderPixel
    \/ RenderSave

SpecSweep == InitSweep /\ [][SweepNext]_vars

----------------------------------------------------------------------------
(* Claims about the interior eroder *)

\* the six face-adjacent neighbours of an inner cell
Neighbours(c) == {Shift(c, a, d) : a \in 1..3, d \in {-1, 1}}

\* C1: after every single iteration of erode_mask, a cell is true in the new
\* mask only if the cell itself and all six of its face-adjacent neighbours
\* were true in the previous mask.
C1_OnlyIfCellAndNeighbours ==
    m_pc = "assign" =>
        \A c \in Cells(new_mask.shape) :
            new_mask.data[c] =>
                /\ c \in Inner(eroded.shape)
                /\ eroded.data[c]
                /\ \A n \in Neighbours(c) : eroded.data[n]

\* C2: the true-set of iteration N+1 is a subset of the true-set of
\* iteration N, and the mask erode_mask returns is a subset of its input.
C2_Monotone ==
    /\ m_pc = "assign" => TrueSet(new_mask) \subseteq TrueSet(eroded)
    /\ m_pc = "reclassified" =>
            TrueSet(interior_mask) \subseteq TrueSet(skeleton_mask)

\* the 5 x 5 x 5 mask that is true exactly on its inner 3 x 3 x 3 block
ScenarioGrid == BoxGrid(ScenarioShape, <<1, 1, 1>>, <<3, 3, 3>>, "skeleton", "none")

ScenarioErodedOnce ==
    /\ m_pc = "reclassified"
    /\ SHELL_THICKNESS = 1
    /\ voxel_grid = ScenarioGrid

\* C3 as stated: eroding the scenario mask once yields an all-false mask.
C3_AllFalse == ScenarioErodedOnce => TrueSet(interior_mask) = {}

\* C3 as amended: eroding the scenario mask once yields the mask that is
\* true exactly at the centre cell (2, 2, 2), whose six neighbours all lie
\* in the inner block.
C3_CentreRemains == ScenarioErodedOnce => TrueSet(interior_mask) = {<<2, 2, 2>>}

C3_Witness == ScenarioErodedOnce /\ interior_mask.data[<<2, 2, 2>>]

\* C4: the output grid differs from the input grid only at cells whose input
\* tag was skeleton, each such changed cell is marrow, and every cell whose
\* input tag was not skeleton keeps its tag.
C4_OnlySkeletonChanges ==
    m_pc = "reclassified" =>
        \A c \in Cells(voxel_grid.shape) :
            /\ output_grid.data[c] # voxel_grid.data[c] =>
                    /\ voxel_grid.data[c] = "skeleton"
                    /\ output_grid.data[c] = "marrow"
            /\ voxel_grid.data[c] # "skeleton" =>
                    output_grid.data[c] = voxel_grid.data[c]

----------------------------------------------------------------------------
(* Claims about the continuous ray-march integrator *)

\* Disjoint solids between the clips whose faces are entry-facing and
\* exit-facing (not near-grazing).
DisjointSolids ==
    /\ scene # {}
    /\ \A sd \in scene :
         /\ sd.cos >= DOT_THRESHOLD
         /\ clip_start <= sd.enter /\ sd.enter < sd.exit /\ sd.exit < clip_end
    /\ \A a \in scene, b \in scene :
         a # b => a.exit < b.enter \/ b.exit < a.enter

FirstEntry == CHOOSE x \in {sd.enter : sd \in scene} : \A sd \in scene : x <= sd.enter
LastExit == CHOOSE x \in {sd.exit : sd \in scene} : \A sd \in scene : sd.exit <= x

\* the stack is empty before the first entry, after the last exit and at
\* termination, and a push is always followed by a pop before the next push
StackDiscipline ==
    /\ Len(inside_stack) <= 1
    /\ current_dist <= FirstEntry => inside_stack = <<>>
    /\ current_dist > LastExit + EPS_DIST => inside_stack = <<>>
    /\ r_pc = "done" => inside_stack = <<>>

\* C5 as stated: for disjoint solids of any positive thickness the stack is
\* empty before the first entry, after the last exit and at termination, and
\* pushes and pops alternate one-to-one.
C5_AnyThickness == r_pc # "idle" /\ DisjointSolids => StackDiscipline

\* the responses that pushed a solid
Pushes ==
    {k \in 1..Len(responses) :
        /\ responses[k].hit
        /\ responses[k].dist_to_hit >= EPS_DIST
        /\ responses[k].dot_val <= -DOT_THRESHOLD}

\* C5 as amended: for disjoint solids each at least 2 * EPS_DIST thick the
\* stack is empty before the first entry, after the last exit and at
\* termination, and pushes and pops alternate one-to-one.
C5_ThickSolids ==
    /\ r_pc # "idle"
    /\ DisjointSolids
    /\ \A sd \in scene : sd.exit - sd.enter >= 2 * EPS_DIST
    => StackDiscipline

C5_Witness ==
    /\ r_pc = "done"
    /\ DisjointSolids
    /\ \A sd \in scene : sd.exit - sd.enter >= 2 * EPS_DIST
    /\ Cardinality(scene) = 2
    /\ Cardinality(Pushes) = 2
    /\ inside_stack = <<>>

\* the concentric scenario, entered at least EPS_DIST beyond the near clip
\* through faces that are not near-grazing, and marched to the end
ConcentricDone ==
    /\ r_pc = "done"
    /\ DENSITY_VALUES = ConcentricDensityValues
    /\ \E lead \in EPS_DIST..MaxLead, c \in {DOT_THRESHOLD, DotOne} :
         scene = Concentric(clip_start + lead, c)

\* C6 as stated: the concentric scenario accumulates optical depth
\* 0.1 x 0.5 + (0.1 + 0.5) x 0.5 = 0.35, each segment contributing the
\* density of the stack times its full length.
C6_FullSegments == ConcentricDone => total_density = 10 * 50000 + 60 * 50000

\* C6 as amended: the concentric scenario accumulates
\* 0.1 x (0.25 - EPS_DIST) + 0.6 x (0.5 - EPS_DIST) + 0.1 x (0.25 - EPS_DIST),
\* that is 0.35 - 0.8 x EPS_DIST: each segment contributes the density of
\* the stack times its length less the EPS_DIST skipped after the hit that
\* starts it.
C6_SegmentsLessMargin ==
    ConcentricDone =>
        total_density = 10 * (25000 - EPS_DIST) + 60 * (50000 - EPS_DIST)
                        + 10 * (25000 - EPS_DIST)

C6_Witness == ConcentricDone /\ Cardinality(Pushes) = 2 /\ Len(responses) >= 4

----------------------------------------------------------------------------
(* Claims about the two integrators on one scene *)

\* both integrators have measured the scene, the builder with the early
\* exit out of reach as shipped (MAX_EMPTY = 200 above DEPTH_SLICES = 150);
\* the solids are disjoint, met head-on, at least 2 x EPS_DIST thick and at
\* least EPS_DIST inside the clips
BothMeasured ==
    /\ r_pc = "done"
    /\ log = <<"voxelgrid", "render_voxelgrid">>
    /\ v_pc = "done"
    /\ MAX_EMPTY >= DEPTH_SLICES
    /\ DisjointSolids
    /\ \A sd \in scene :
         /\ sd.cos = DotOne
         /\ sd.exit - sd.enter >= 2 * EPS_DIST
         /\ sd.enter - clip_start >= EPS_DIST
         /\ clip_end - sd.exit > EPS_DIST

\* the larger of the densities the two integrators give a solid, in 0.01
KnownDensity(sd) ==
    Max(DensityOf(sd.obj), DENSITY_MAPPING[TypeOf(sd.obj)])

\* the allowance of one integrator, times DEPTH_SLICES: at each face of each
\* solid one slice and one EPS_DIST of the densest solid
Tolerance ==
    SetMax({KnownDensity(sd) : sd \in scene}) * 2 * Cardinality(scene)
        * (v_meta.step + EPS_DIST * DEPTH_SLICES)

\* the optical depths of the ray march and of the discrete integrator, in
\* units of 1e-7 / DEPTH_SLICES
ContinuousDepth == total_density * DEPTH_SLICES

DiscreteDepth == projection[<<0, 0>>].one_minus_exp_neg

\* C7: for rays through axis-aligned, non-overlapping solids of known
\* density and thickness, the optical depths of the continuous ray-march
\* integrator and of the discrete voxel integrator are each within a bounded
\* tolerance of density x thickness, and hence within twice that tolerance
\* of each other.
C7_IntegratorsAgree ==
    BothMeasured => Abs(ContinuousDepth - DiscreteDepth) <= 2 * Tolerance

----------------------------------------------------------------------------
(* Claims about the discrete grid integrator and the pipeline *)

PipelineOrder == <<"voxelgrid", "simulate_marrow", "render_voxelgrid">>

\* C8: after the stages ran in pipeline order, the grid the discrete
\* integrator integrated is the grid the eroder produced, and every pixel
\* holds the densities of the eroder's tags, marrow included.
C8_IntegratesErodedGrid ==
    log = PipelineOrder /\ v_pc = "done" =>
        /\ v_grid \in file_marrow
        /\ \A px \in DOMAIN projection :
             projection[px] =
                 IntensityOf(ColumnDensity(output_grid, px[1], px[2], v_meta))

\* the metadata read does not describe the grid read
Malformed ==
    \/ v_meta.width # v_grid.shape[2]
    \/ v_meta.height # v_grid.shape[1]
    \/ v_meta.depth_slices # v_grid.shape[3]
    \/ v_meta.step <= 0
    \/ v_meta.depth_slices <= 0

\* C9: with malformed metadata the integrator aborts before any output
\* image is produced.
C9_MalformedAborts ==
    v_pc \in {"loop", "done"} /\ Malformed => v_pc # "done" /\ file_png = NoFile

\* a cell among the integrated slices of some pixel holds a tag that is not
\* a key of DENSITY_MAPPING
UnknownTagIntegrated ==
    \E c \in DOMAIN v_grid.data :
        /\ c[1] < v_meta.height /\ c[2] < v_meta.width /\ c[3] < v_meta.depth_slices
        /\ v_grid.data[c] \notin DOMAIN DENSITY_MAPPING

\* C10: if any integrated cell holds an unknown tag, the run never completes
\* and no output image is created or saved.
C10_UnknownTagFatal ==
    v_pc \in {"loop", "done", "aborted"} /\ UnknownTagIntegrated
        => v_pc # "done" /\ file_png = NoFile

\* a run that integrated some pixels and then aborted at an unknown tag,
\* its metadata matching the grid
C10_Witness ==
    /\ v_pc = "aborted"
    /\ ~Malformed
    /\ UnknownTagIntegrated
    /\ v_next >= 1
    /\ file_png = NoFile

----------------------------------------------------------------------------
(* Further claims about the interior eroder *)

\* the cells with an index at the extreme boundary of its axis
Border(shape) == Cells(shape) \ Inner(shape)

\* C11: after every iteration of erode_mask, on a mask of any shape, every
\* cell of the result with an index 0 or last on its axis is false, and the
\* cells read for a cell are its six face-adjacent neighbours inside the
\* grid, none taken from the opposite face.
C11_BordersFalseNoWrap ==
    /\ m_pc = "assign" =>
         /\ \A c \in Border(new_mask.shape) : ~new_mask.data[c]
         /\ \A c \in Inner(eroded.shape) :
              /\ OperandCells(eroded.shape, c) \subseteq Cells(eroded.shape)
              /\ OperandCells(eroded.shape, c) = Neighbours(c)
              /\ new_mask.data[c] =
                     (\A o \in OperandCells(eroded.shape, c) : eroded.data[o])
    /\ m_pc \in {"loop", "reclassified", "done"} /\ it >= 1 =>
         \A c \in Border(eroded.shape) : ~eroded.data[c]
    /\ m_pc \in {"reclassified", "done"} /\ SHELL_THICKNESS >= 1 =>
         \A c \in Border(interior_mask.shape) : ~interior_mask.data[c]

\* an iteration on a mask true at border cells and at all the neighbours of
\* an inner cell: the inner cell stays, the border is cleared
C11_Witness ==
    /\ m_pc = "assign"
    /\ \E c \in Border(eroded.shape) : eroded.data[c]
    /\ \E c \in Inner(new_mask.shape) : new_mask.data[c]

----------------------------------------------------------------------------
(* Claims about the voxel grid builder *)

\* the tag of slice k of the ray
SliceTag(k) == b_voxel_grid.data[<<0, 0, k>>]

\* slices lo..hi are all 'none'
NoneRun(lo, hi) == \A k \in lo..hi : SliceTag(k) = "none"

\* the slices up to e end a run of more than MAX_EMPTY 'none' slices that
\* follows a slice with geometry
RunExceeds(e) ==
    /\ e - MAX_EMPTY - 1 >= 0
    /\ NoneRun(e - MAX_EMPTY, e)
    /\ \E g \in 0..(e - MAX_EMPTY - 1) :
         SliceTag(g) # "none" /\ NoneRun(g + 1, e - MAX_EMPTY)

\* the state of the slice loop: b_k slices were sampled, the others are
\* 'none'; the stop is set exactly when the run of 'none' ending at the
\* last sampled slice follows geometry and exceeds MAX_EMPTY, and no earlier
\* slice ended such a run
StopRule ==
    b_pc \in {"ray", "filled", "done"} =>
        /\ b_k \in 0..DEPTH_SLICES
        /\ \A k \in b_k..(DEPTH_SLICES - 1) : SliceTag(k) = "none"
        /\ found_geometry = (\E k \in 0..(b_k - 1) : SliceTag(k) # "none")
        /\ exited_geometry = (b_k >= 1 /\ RunExceeds(b_k - 1))
        /\ \A e \in 0..(b_k - 2) : ~RunExceeds(e)
        /\ ~found_geometry => ~exited_geometry /\ empty_count = 0
        /\ b_pc # "ray" => exited_geometry \/ b_k = DEPTH_SLICES

\* a step of the loop samples slice b_k, the next in increasing order, and
\* writes no other slice; the loop ends only at the stop or after the last
\* slice
SlicesInOrder ==
    /\ b_pc = "ray" /\ b_pc' = "ray" =>
         /\ ~exited_geometry
         /\ b_k' = b_k + 1
         /\ \A k \in 0..(DEPTH_SLICES - 1) :
              k # b_k => b_voxel_grid'.data[<<0, 0, k>>] = SliceTag(k)
    /\ b_pc = "ray" /\ b_pc' # "ray" =>
         /\ exited_geometry \/ b_k = DEPTH_SLICES
         /\ b_voxel_grid' = b_voxel_grid
         /\ b_k' = b_k

\* C12: for each ray the depth slices are sampled in increasing order and
\* sampling stops exactly when the count of consecutive 'none' slices since
\* the last slice with geometry exceeds MAX_EMPTY; the slices after the stop
\* remain 'none', no slice before the stop is skipped, and 'none' slices
\* before the first geometry never trigger the stop.
C12_EarlyExitRule == []StopRule /\ [][SlicesInOrder]_vars

\* a ray that began with a 'none' slice, saw geometry and stopped after more
\* than MAX_EMPTY >= 1 'none' slices, leaving slices unsampled
C12_Witness ==
    /\ b_pc = "filled"
    /\ exited_geometry
    /\ MAX_EMPTY >= 1
    /\ SliceTag(0) = "none"
    /\ b_k < DEPTH_SLICES

\* the fixed order skeleton > muscle > body > none
Priority == [skeleton |-> 3, muscle |-> 2, body |-> 1, none |-> 0]

\* the tag of the highest priority in a set of tags
Highest(observed) ==
    CHOOSE t \in observed : \A u \in observed : Priority[u] <= Priority[t]

\* the solid holds the sample point (a position times FracDen * DEPTH_SLICES)
Contains(sd, pos) ==
    /\ sd.enter * FracDen * DEPTH_SLICES < pos
    /\ pos < sd.exit * FracDen * DEPTH_SLICES

\* the buckets with a solid that holds the sample point
BucketsAt(pos) ==
    {t \in VoxelTypes : \E sd \in scene : TypeOf(sd.obj) = t /\ Contains(sd, pos)}

\* the sample points of slice k: within the slice, EPSILON further
InSlice(pos, k) ==
    /\ pos >= (b_min_dist + EPSILON) * FracDen * DEPTH_SLICES + FracDen * k * b_step
    /\ pos < (b_min_dist + EPSILON) * FracDen * DEPTH_SLICES
             + FracDen * (k + 1) * b_step

\* C13: the tag assigned to a sampled depth slice is the highest-priority tag
\* among its SUB_STEPS sub-samples under skeleton > muscle > body > none,
\* each sub-sample's tag being the highest-priority bucket with a solid that
\* holds the sample point; the slice is 'none' only if no sub-sample is
\* inside any solid.
C13_TagPriority ==
    b_pc \in {"ray", "filled", "done"} /\ b_k >= 1 =>
        /\ Len(pt_sample) = SUB_STEPS /\ Len(tags) = SUB_STEPS
        /\ \A s \in 1..SUB_STEPS :
             /\ InSlice(pt_sample[s], b_k - 1)
             /\ tags[s] = Highest(BucketsAt(pt_sample[s]) \cup {"none"})
        /\ SliceTag(b_k - 1) = Highest({tags[s] : s \in 1..SUB_STEPS})
        /\ SliceTag(b_k - 1) = "none" =>
             \A s \in 1..SUB_STEPS : \A sd \in scene : ~Contains(sd, pt_sample[s])

\* a slice whose sub-samples got different tags, one of them inside solids
\* of two buckets
C13_Witness ==
    /\ b_pc = "ray"
    /\ b_k >= 1
    /\ tags[1] # tags[2]
    /\ \E s \in 1..SUB_STEPS : Cardinality(BucketsAt(pt_sample[s])) >= 2
    /\ SliceTag(b_k - 1) \in {"skeleton", "muscle"}

----------------------------------------------------------------------------
(* Further claims about the continuous ray-march integrator *)

\* the response of the iteration just made
LastResponse == responses'[Len(responses')]

\* an iteration was made on a hit closer than EPS_DIST
SelfHitStep ==
    /\ Len(responses') = Len(responses) + 1
    /\ LastResponse.hit
    /\ LastResponse.dist_to_hit < EPS_DIST

\* an iteration was made on a hit at EPS_DIST or further whose
\* |ray direction . normal| is below DOT_THRESHOLD
GrazeStep ==
    /\ Len(responses') = Len(responses) + 1
    /\ LastResponse.hit
    /\ LastResponse.dist_to_hit >= EPS_DIST
    /\ Abs(LastResponse.dot_val) < DOT_THRESHOLD

SelfHitAndGrazeEffect ==
    /\ SelfHitStep =>
         /\ inside_stack' = inside_stack
         /\ total_density' = total_density
         /\ current_dist' = current_dist + EPS_DIST
    /\ GrazeStep =>
         /\ inside_stack' = inside_stack
         /\ current_dist' = current_dist + LastResponse.dist_to_hit + EPS_DIST

\* C14: neither a degenerate self-hit (hit distance below EPS_DIST) nor a
\* near-grazing hit (|ray direction . normal| below DOT_THRESHOLD) changes
\* the nested-volume stack; a self-hit also leaves the accumulated optical
\* depth unchanged and advances the current distance by exactly EPS_DIST.
C14_SelfHitGrazeFrame == [][SelfHitAndGrazeEffect]_vars

\* a march that met a self-hit and then, with a solid on the stack and
\* optical depth accumulated, a near-grazing hit
C14_Witness ==
    /\ r_pc = "loop"
    /\ Len(responses) >= 3
    /\ \E k \in 1..Len(responses) :
         responses[k].hit /\ responses[k].dist_to_hit < EPS_DIST
    /\ responses[Len(responses)].hit
    /\ responses[Len(responses)].dist_to_hit >= EPS_DIST
    /\ Abs(responses[Len(responses)].dot_val) < DOT_THRESHOLD
    /\ inside_stack # <<>>
    /\ total_density > 0

\* an iteration of the loop either breaks or moves the current distance on
\* by at least EPS_DIST
BreaksOrAdvances ==
    Len(responses') = Len(responses) + 1 =>
        \/ ~LastResponse.hit /\ r_pc' = "done"
        \/ LastResponse.hit /\ current_dist' >= current_dist + EPS_DIST

\* C15: for every sequence of ray_cast responses the ray-march loop
\* terminates: each iteration either breaks (no hit) or increases the
\* current distance by at least EPS_DIST, so the current distance reaches the
\* far clip after finitely many iterations.
C15_LoopTerminates ==
    /\ [][BreaksOrAdvances]_vars
    /\ [](Len(responses) * EPS_DIST <= clip_end - clip_start + EPS_DIST)
    /\ <>(r_pc = "done")

\* a march ended by the far clip after nothing but self-hits
C15_Witness ==
    /\ r_pc = "done"
    /\ current_dist >= clip_end
    /\ Len(responses) = MaxIterations
    /\ \A k \in 1..Len(responses) :
         responses[k].hit /\ responses[k].dist_to_hit < EPS_DIST

----------------------------------------------------------------------------
(* Claims about the point-containment test *)

\* a hit is counted, strictly reduces the budget and ends the loop exactly
\* when the budget is used up; a response that is not a hit ends the loop
PimStepEffect ==
    /\ p_hits' = p_hits + 1 =>
         /\ p_max_dist' < p_max_dist
         /\ (p_pc' = "done") = (p_max_dist' <= 0)
    /\ p_pc = "loop" /\ p_hits' = p_hits => p_pc' = "done"
    /\ p_hits' \in {p_hits, p_hits + 1}

\* C16: point_in_mesh_local terminates for every sequence of ray-cast
\* responses: it stops on the first miss or as soon as the remaining
\* distance budget is <= 0, the budget strictly decreases on every hit, and
\* it returns true iff the number of hits counted before stopping is odd.
C16_ParityTerminates ==
    /\ [][PimStepEffect]_pimVars
    /\ [](p_pc = "done" => p_inside = (p_hits % 2 = 1))
    /\ [](p_pc = "loop" => p_max_dist > 0)
    /\ <>(p_pc = "done")

\* a call stopped by the budget after an odd number of hits, three or more
C16_Witness ==
    /\ p_pc = "done"
    /\ p_max_dist <= 0
    /\ p_hits >= 3
    /\ p_inside

----------------------------------------------------------------------------
(* Claims about the pixel sweeps of the two integrators *)

\* the ray march of a pixel starts from an empty stack, a zero accumulator
\* and the near clip; the cells of the pixels swept hold the same value
\* wherever the rays meet the same solids, whatever was swept before, and
\* the cells of the others hold the 0.0 of line 69
RaySweepIndependent ==
    r_pc \in {"loop", "done", "swept"} /\ r_buffer # <<>> =>
        /\ r_pc = "loop" /\ responses = <<>> =>
             /\ inside_stack = <<>>
             /\ total_density = 0
             /\ current_dist = clip_start
        /\ \A n \in 1..r_next, q \in 1..r_next :
             scene[n] = scene[q] => r_buffer[n] = r_buffer[q]
        /\ \A n \in (r_next + 1)..Len(r_buffer) : r_buffer[n] = IntensityOf(0)

\* the cells of the pixels integrated hold the optical depth of their own
\* column of the grid, the cells of the others the 0.0 of line 39
GridSweepIndependent ==
    v_pc \in {"loop", "done", "aborted"} =>
        \A n \in 0..(v_meta.width * v_meta.height - 1) :
            LET px == PixelAt(n, v_meta.width)
            IN  projection[px] =
                    IF n < v_next
                    THEN IntensityOf(ColumnDensity(v_grid, px[1], px[2], v_meta))
                    ELSE IntensityOf(0)

\* a step writes no cell but the one of the pixel it is at, and leaves the
\* scene and the grid as they are
WritesOwnCell ==
    /\ r_pc \in {"loop", "done"} /\ r_buffer # <<>> =>
         /\ scene' = scene
         /\ \A n \in 1..Len(r_buffer) :
              n # r_next + 1 => r_buffer'[n] = r_buffer[n]
    /\ v_pc = "loop" =>
         /\ v_grid' = v_grid /\ v_meta' = v_meta
         /\ \A px \in DOMAIN projection :
              px # PixelAt(v_next, v_meta.width) => projection'[px] = projection[px]

============================================================================
